---- MODULE Spec2Model ----
(***************************************************************************)
(* Model of js_summarizer.py: the adaptive fetch orchestrator smart_fetch, *)
(* the two fetch strategies fetch_static and fetch_selenium, the heuristic *)
(* classifier looks_js_heavy and the on-disk cache (_cache_read and        *)
(* _cache_write under CACHE_DIR), and around them the session driver       *)
(* summarize_url with extract_main_content, short and summarize_via_openai.*)
(*                                                                         *)
(* An HTML document is abstracted to what the code observes of it:         *)
(*   bare   occurrences of "<script" followed by one of the characters the *)
(*          class [\\s>] of line 36 accepts ("<script>", any letter case)  *)
(*   attr   occurrences of "<script" followed by white space, that is a    *)
(*          script tag that carries attributes ("<script src=...>")        *)
(*   text   length of the visible text strip_noise returns for it          *)
(*   other  1 when the document holds any other markup, 0 otherwise        *)
(* The empty string is the document with all four at 0.                    *)
(***************************************************************************)
EXTENDS Naturals, Sequences, FiniteSets, TLC

\* ---------------------------------------------------------------- bounds
MaxCalls == 3        \* smart_fetch calls in one behaviour
MaxElapsed == 1      \* largest elapsed time (whole seconds) a strategy reports

\* ------------------------------------------------------ program constants
ScriptLimit == 20    \* line 37: scripts > 20
MinTextLen == 400    \* line 37: len(strip_noise(html_text)) < 400
MaxChars == 18000    \* line 128: short(main_text, n=18000)

None == [kind |-> "None"]

Urls == {"u1", "u2"}
WaitCss == {"", ".main"}   \* wait_css: None or "" (both falsy), or a selector

\* ------------------------------------------------------------- documents
EmptyStr == [bare |-> 0, attr |-> 0, text |-> 0, other |-> 0]

\* the values on either side of each threshold of line 37
ScriptCounts == {ScriptLimit, ScriptLimit + 1}
AttrCounts == {0, 1}
TextLens == {MinTextLen - 1, MinTextLen}

\* a document whose visible text is longer than the budget of line 128
LongPage == [bare |-> ScriptLimit, attr |-> 0, text |-> MaxChars + 1, other |-> 1]

\* r.text of a successful GET: any document, the empty body included
StaticPages ==
    {EmptyStr, LongPage}
        \cup [bare : ScriptCounts, attr : AttrCounts, text : TextLens, other : {1}]

\* driver.page_source: the serialised DOM, which always holds the html element
BrowserPages ==
    {LongPage}
        \cup [bare : ScriptCounts, attr : AttrCounts, text : TextLens, other : {1}]

Elapsed == 1..MaxElapsed

\* ------------------------------------------------------------ Content Store
\* _key: sha256(s)[:16]; distinct on the URLs of the model
_key(u) == <<"sha256_16", u>>

RawName(u) == <<"raw_", _key(u), ".html">>
SumName(u) == <<"sum_", _key(u), ".json">>
Names == {RawName(u) : u \in Urls} \cup {SumName(u) : u \in Urls}

\* str.encode("utf-8", errors="ignore") / bytes.decode("utf-8", errors="ignore").
\* The documents of the model hold no unencodable code point (requests decodes
\* with replacement, the WebDriver protocol carries UTF-8), so nothing is dropped.
Encode(h) == [kind |-> "bytes", utf8 |-> h]
Decode(b) == b.utf8
EmptyBytes == Encode(EmptyStr)

\* truth value of a bytes-or-None value in "if cached:"
Truthy(b) == b # None /\ b # EmptyBytes

\* a write that keeps a file that already exists (exclusive creation)
_cache_write_exclusive(st, name, data) ==
    IF st[name] = [kind |-> "None"] THEN [st EXCEPT ![name] = data] ELSE st

\* Path.write_bytes / Path.read_bytes; the disk is taken not to fail
_cache_write(st, name, data) == [st EXCEPT ![name] = data]
_cache_read(st, name) == st[name]

\* ------------------------------------------------- strip_noise / classifier
strip_noise(h) == h.text

\* len(re.findall(r'<script[\\s>]', html_text, flags=re.I)): the class holds
\* the backslash, the letter s and ">", and no white space
ScriptMatches(h) == h.bare

looks_js_heavy(h) == ScriptMatches(h) > ScriptLimit \/ strip_noise(h) < MinTextLen

FetchResult(u, m, h, e) ==
    [url |-> u, method |-> m, html |-> h, text |-> strip_noise(h), elapsed |-> e]

VARIABLES
    store,      \* CACHE_DIR: name -> bytes, None when the file does not exist
    sessions,   \* browser sessions started and not yet quit
    pc,         \* where the current smart_fetch call stands
    url, force_js, wait_css,   \* the arguments of the current call
    cached,     \* smart_fetch's local: what _cache_read returned
    phase,      \* "primary": inside the try block; "fallback": inside except
    s,          \* smart_fetch's local s after line 74, None before
    heavy,      \* the verdict of looks_js_heavy(s["html"]) at line 75
    driver,     \* fetch_selenium's frame: html_text read, exception in flight
    trace,      \* strategy invocations of the current call, in order
    result,     \* outcome of the current call: returned FetchResult or raised
    last,       \* the previous completed call: its url, how it ended, the html returned
    calls,      \* completed calls
    writes,     \* names handed to _cache_write during the current run, in order
    spc,        \* where the current summarize_url run stands
    store0,     \* CACHE_DIR as it was when the current run started
    fetched,    \* summarize_url's local: the FetchResult of line 126
    doc,        \* how readability fared at lines 88-90: "none", "ok", "raised"
    title, main_text,   \* summarize_url's locals of line 127
    text,       \* summarize_url's local of line 128
    sent,       \* the text inside the body of the POST of line 113, None before
    resp,       \* the response of line 117, None before
    summ,       \* what summarize_via_openai returned
    out,        \* the record of lines 130-136
    err,        \* the exception that ended the run, "" when none
    lastRun     \* the previous run: its url, how it ended ("none" when there was
                \* no run, "ok", "failed"), whether it wrote the raw blob

runvars == <<spc, store0, fetched, doc, title, main_text, text, sent, resp, summ, out,
             err, lastRun>>

vars == <<store, sessions, pc, url, force_js, wait_css, cached, phase, s, heavy,
          driver, trace, result, last, calls, writes, runvars>>

NoDriver == [html |-> None, exc |-> FALSE]

Init ==
    /\ store = [n \in Names |-> None]
    /\ sessions = 0
    /\ pc = "idle"
    /\ url = "u1" /\ force_js = FALSE /\ wait_css = ""
    /\ cached = None
    /\ phase = "none"
    /\ s = None
    /\ heavy = FALSE
    /\ driver = NoDriver
    /\ trace = <<>>
    /\ result = None
    /\ last = None
    /\ calls = 0
    /\ writes = <<>>
    /\ spc = "idle"
    /\ store0 = [n \in Names |-> None]
    /\ fetched = None
    /\ doc = "none"
    /\ title = "" /\ main_text = 0
    /\ text = None
    /\ sent = None
    /\ resp = None
    /\ summ = None
    /\ out = None
    /\ err = ""
    /\ lastRun = [kind |-> "none"]

\* --------------------------------------------------- smart_fetch, its frame
Returned(r) == [kind |-> "returned", value |-> r]
Raised == [kind |-> "raised"]

Invocation(fn, res) == [fn |-> fn, phase |-> phase, res |-> res]
SetLast(t, res) == [t EXCEPT ![Len(t)].res = res]

\* line 82 with the two branches exchanged: the fallback repeats the request
FallbackStrategy_Same(f) == IF f THEN "selenium" ELSE "static"

\* line 82: fetch_static(url) if force_js else fetch_selenium(url, wait_css)
FallbackStrategy(f) == IF f THEN "static" ELSE "selenium"

\* the fallback's exception swallowed: an empty outcome is returned instead
Propagate_Swallowed ==
    /\ result' = [kind |-> "returned",
                  value |-> [url |-> url, method |-> "requests", html |-> EmptyStr,
                             text |-> 0, elapsed |-> 0]]
    /\ pc' = "done"

\* the fallback's exception caught and the fallback tried again, twice at most
Propagate_Retry ==
    IF Len(trace) < 5
    THEN /\ pc' = IF force_js THEN "static" ELSE "selenium"
         /\ UNCHANGED result
    ELSE /\ result' = [kind |-> "raised"]
         /\ pc' = "done"

\* an exception that leaves the except block of lines 81-84 reaches the caller
Propagate ==
    /\ result' = Raised
    /\ pc' = "done"

\* lines 81-82: an exception raised inside the try block enters the handler,
\* which starts the fallback; one raised inside the handler is not caught
OnRaise ==
    IF phase = "primary"
    THEN /\ phase' = "fallback"
         /\ pc' = FallbackStrategy(force_js)
         /\ UNCHANGED <<store, writes, result, s, heavy>>
    ELSE /\ Propagate
         /\ UNCHANGED <<store, writes, phase, s, heavy>>

\* lines 76-77, 79-80, 83-84: _cache_write(ck, r["html"].encode(...)); return r
WriteAndReturn(r) ==
    /\ store' = _cache_write(store, RawName(url), Encode(r.html))
    /\ writes' = Append(writes, RawName(url))
    /\ result' = Returned(r)
    /\ pc' = "done"

\* lines 74-77 without the test of line 75: the static outcome always returned
AfterStatic_Unclassified(r) ==
    /\ s' = r
    /\ heavy' = looks_js_heavy(r.html)
    /\ WriteAndReturn(r)
    /\ UNCHANGED phase

\* lines 74-78 with the write of line 76 placed before the test of line 75
AfterStatic_WriteFirst(r) ==
    /\ s' = r
    /\ heavy' = looks_js_heavy(r.html)
    /\ store' = [store EXCEPT ![RawName(url)] = Encode(r.html)]
    /\ writes' = Append(writes, RawName(url))
    /\ IF ~looks_js_heavy(r.html)
       THEN result' = Returned(r) /\ pc' = "done"
       ELSE pc' = "selenium" /\ UNCHANGED result
    /\ UNCHANGED phase

\* lines 74-78: s = fetch_static(url) returned inside the try block
AfterStatic(r) ==
    /\ s' = r
    /\ heavy' = looks_js_heavy(r.html)
    /\ IF ~looks_js_heavy(r.html)
       THEN WriteAndReturn(r)
       ELSE pc' = "selenium" /\ UNCHANGED <<store, writes, result>>
    /\ UNCHANGED phase

\* lines 78-80: s = fetch_selenium(...) returned inside the try block
AfterSelenium(r) ==
    /\ WriteAndReturn(r)
    /\ UNCHANGED <<phase, s, heavy>>

\* lines 82-84 without line 83: alt returned and never written
AfterFallback_NoWrite(alt) ==
    /\ result' = Returned(alt)
    /\ pc' = "done"
    /\ UNCHANGED <<store, writes, phase, s, heavy>>

\* lines 82-84 with the test of line 75 applied to alt as well
AfterFallback_Classified(alt) ==
    /\ IF alt.method = "requests" /\ looks_js_heavy(alt.html)
       THEN pc' = "selenium" /\ UNCHANGED <<store, writes, result>>
       ELSE WriteAndReturn(alt)
    /\ UNCHANGED <<phase, s, heavy>>

\* lines 82-84: alt returned inside the except block
AfterFallback(alt) ==
    /\ WriteAndReturn(alt)
    /\ UNCHANGED <<phase, s, heavy>>

\* lines 66-73: the cache lookup; on a miss the try block is entered with
\* fetch_static (line 74) or, under force_js, fetch_selenium (line 78)
smart_fetch(u, f, w) ==
    /\ pc = "idle"
    /\ spc = "idle"
    /\ calls < MaxCalls
    /\ url' = u /\ force_js' = f /\ wait_css' = w
    /\ cached' = _cache_read(store, RawName(u))
    /\ IF Truthy(_cache_read(store, RawName(u)))
       THEN /\ result' = Returned(FetchResult(u, "cache",
                             Decode(_cache_read(store, RawName(u))), 0))
            /\ pc' = "done"
            /\ phase' = "none"
       ELSE /\ result' = None
            /\ pc' = IF f THEN "selenium" ELSE "static"
            /\ phase' = "primary"
    /\ trace' = <<>>
    /\ spc' = "fetch"
    /\ store0' = store
    /\ writes' = <<>>
    /\ UNCHANGED <<store, sessions, s, heavy, driver, last, calls, fetched, doc,
                   title, main_text, text, sent, resp, summ, out, err, lastRun>>

\* ------------------------------------------------------------ fetch_static
\* lines 42-47: the GET succeeds with status 2xx
fetch_static_returns ==
    /\ pc = "static"
    /\ \E h \in StaticPages, e \in Elapsed :
          /\ trace' = Append(trace, Invocation("requests", "ok"))
          /\ IF phase = "primary"
             THEN AfterStatic(FetchResult(url, "requests", h, e))
             ELSE AfterFallback(FetchResult(url, "requests", h, e))
    /\ UNCHANGED <<sessions, url, force_js, wait_css, cached, driver, last, calls,
                   runvars>>

\* lines 44-45: requests.get raises (network, timeout) or raise_for_status does
fetch_static_raises ==
    /\ pc = "static"
    /\ trace' = Append(trace, Invocation("requests", "raised"))
    /\ OnRaise
    /\ UNCHANGED <<sessions, url, force_js, wait_css, cached, driver, last, calls,
                   runvars>>

\* ---------------------------------------------------------- fetch_selenium
\* lines 50-55: webdriver.Chrome(...) starts a browser session
webdriver_Chrome ==
    /\ pc = "selenium"
    /\ sessions' = sessions + 1
    /\ driver' = NoDriver
    /\ trace' = Append(trace, Invocation("selenium", "running"))
    /\ pc' = "get"
    /\ UNCHANGED <<store, url, force_js, wait_css, cached, phase, s, heavy,
                   result, last, calls, writes, runvars>>

\* line 55: the driver install or the browser launch raises; no session exists
webdriver_Chrome_raises ==
    /\ pc = "selenium"
    /\ trace' = Append(trace, Invocation("selenium", "raised"))
    /\ OnRaise
    /\ UNCHANGED <<sessions, url, force_js, wait_css, cached, driver, last, calls,
                   runvars>>

\* lines 57-59: set_page_load_timeout, driver.get(url), if wait_css
driver_get ==
    /\ pc = "get"
    /\ pc' = IF wait_css # "" THEN "wait" ELSE "source"
    /\ UNCHANGED <<store, sessions, url, force_js, wait_css, cached, phase, s,
                   heavy, driver, trace, result, last, calls, writes, runvars>>

\* line 60: WebDriverWait(...).until(presence_of_element_located(...))
WebDriverWait_until ==
    /\ pc = "wait"
    /\ pc' = "source"
    /\ UNCHANGED <<store, sessions, url, force_js, wait_css, cached, phase, s,
                   heavy, driver, trace, result, last, calls, writes, runvars>>

\* line 61: html_text = driver.page_source
page_source ==
    /\ pc = "source"
    /\ \E h \in BrowserPages : driver' = [driver EXCEPT !.html = h]
    /\ pc' = "quit"
    /\ UNCHANGED <<store, sessions, url, force_js, wait_css, cached, phase, s,
                   heavy, trace, result, last, calls, writes, runvars>>

\* lines 57-61: navigation fails, the wait times out or the session dies;
\* control leaves the try body for the finally clause with the exception
driver_raises ==
    /\ pc \in {"get", "wait", "source"}
    /\ driver' = [driver EXCEPT !.exc = TRUE]
    /\ pc' = "quit"
    /\ UNCHANGED <<store, sessions, url, force_js, wait_css, cached, phase, s,
                   heavy, trace, result, last, calls, writes, runvars>>

\* lines 62-63: finally: driver.quit(), whether or not an exception is in flight
quit_on_success_only(exc) == sessions' = IF exc THEN sessions ELSE sessions - 1

driver_quit(exc) == sessions' = sessions - 1

\* lines 62-64 on the normal path: quit, then return the FetchResult
finally_return ==
    /\ pc = "quit"
    /\ ~driver.exc
    /\ driver_quit(driver.exc)
    /\ trace' = SetLast(trace, "ok")
    /\ \E e \in Elapsed :
          IF phase = "primary"
          THEN AfterSelenium(FetchResult(url, "selenium", driver.html, e))
          ELSE AfterFallback(FetchResult(url, "selenium", driver.html, e))
    /\ UNCHANGED <<url, force_js, wait_css, cached, driver, last, calls, runvars>>

\* lines 62-63 on the exception path: quit, then the exception continues
finally_reraise ==
    /\ pc = "quit"
    /\ driver.exc
    /\ driver_quit(driver.exc)
    /\ trace' = SetLast(trace, "raised")
    /\ OnRaise
    /\ UNCHANGED <<url, force_js, wait_css, cached, driver, last, calls, runvars>>

\* ------------------------------------------------------------- the caller
\* line 126: fetched = smart_fetch(...); the call has returned or raised and
\* its frame is gone; an exception is not caught in summarize_url
Return ==
    /\ pc = "done"
    /\ last' = [url |-> url, kind |-> result.kind,
                html |-> IF result.kind = "returned" THEN result.value.html ELSE None]
    /\ calls' = calls + 1
    /\ pc' = "idle"
    /\ cached' = None /\ phase' = "none" /\ s' = None /\ heavy' = FALSE
    /\ driver' = NoDriver /\ trace' = <<>> /\ result' = None
    /\ IF result.kind = "returned"
       THEN fetched' = result.value /\ spc' = "extract" /\ err' = ""
       ELSE fetched' = None /\ spc' = "failed" /\ err' = "fetch"
    /\ force_js' = FALSE /\ wait_css' = ""
    /\ UNCHANGED <<store, sessions, url, writes, store0, doc, title, main_text,
                   text, sent, resp, summ, out, lastRun>>

\* ---------------------------------------------------- extract_main_content
Titles == {"", "T"}

\* lengths strip_noise(doc.summary(html_partial=True)) can have for a document:
\* the main content is the whole visible text or a part of it
MainLens(h) == {strip_noise(h)} \cup {l \in {0, MaxChars} : l < strip_noise(h)}

\* line 96 without the marker: txt[:n]
short_NoMarker(txt, n) == [chars |-> IF txt > n THEN n ELSE txt, marker |-> 0]

\* line 96: txt[:n] + ("…" if len(txt) > n else ""), on a text of length txt:
\* chars leading characters of txt followed by marker ellipsis characters
short(txt, n) ==
    [chars |-> IF txt > n THEN n ELSE txt, marker |-> IF txt > n THEN 1 ELSE 0]

TextLen(x) == x.chars + x.marker

\* lines 87-91 and 127-128: readability yields a title and the main content
extract_main_content ==
    /\ spc = "extract"
    /\ doc' = "ok"
    /\ \E t \in Titles, m \in MainLens(fetched.html) :
          /\ title' = t
          /\ main_text' = m
          /\ text' = short(m, MaxChars)
    /\ spc' = "summarize"
    /\ UNCHANGED <<store, sessions, pc, url, force_js, wait_css, cached, phase, s,
                   heavy, driver, trace, result, last, calls, writes, store0,
                   fetched, sent, resp, summ, out, err, lastRun>>

\* the handler of lines 92-93 left out: the exception reaches summarize_url
OnDocumentRaises_Propagates ==
    /\ spc' = "failed"
    /\ err' = "Unparseable"
    /\ UNCHANGED <<title, main_text, text>>

\* lines 92-93 and 127-128: return "", strip_noise(html_text); then short
OnDocumentRaises ==
    /\ title' = ""
    /\ main_text' = strip_noise(fetched.html)
    /\ text' = short(strip_noise(fetched.html), MaxChars)
    /\ spc' = "summarize"
    /\ UNCHANGED err

\* lines 87-93: Document, short_title or summary raises
extract_main_content_except ==
    /\ spc = "extract"
    /\ doc' = "raised"
    /\ OnDocumentRaises
    /\ UNCHANGED <<store, sessions, pc, url, force_js, wait_css, cached, phase, s,
                   heavy, driver, trace, result, last, calls, writes, store0,
                   fetched, sent, resp, summ, out, lastRun>>

\* ---------------------------------------------------- summarize_via_openai
\* a string: its content and whether white space surrounds it
Str(v, pad) == [kind |-> "str", v |-> v, pad |-> pad]
strip(x) == [x EXCEPT !.pad = FALSE]

\* the response of line 117: its HTTP status and the shape of its body
\*   "text"     data["output"][0]["content"][0]["text"] is a string
\*   "nontext"  that path exists and holds null
\*   "other"    valid JSON of another shape (an error object, a list)
\*   "notjson"  not JSON (an HTML error page, an empty body)
Responses ==
    [status : {200}, body : {"text", "nontext", "other", "notjson"}]
        \cup [status : {401}, body : {"other", "notjson"}]

\* line 103: the user message carries the url and the text as given
UserContent(u, x) == [url |-> u, text |-> x]

\* line 118: json.loads(resp.read()) raises on a body that is not JSON
JsonLoadsRaises(r) == r.body = "notjson"

\* lines 120-123: the text segment, or json.dumps(data, indent=2) when the
\* path does not exist; a value found on the path is returned whatever it is
ExtractText(r) ==
    CASE r.body = "text" -> Str("summary", TRUE)
      [] r.body = "nontext" -> [kind |-> "null"]
      [] OTHER -> Str(<<"dumps", r.status, r.body>>, FALSE)

RunFrame == <<store, sessions, pc, url, force_js, wait_css, cached, phase, s, heavy,
              driver, trace, result, last, calls, writes, store0, fetched, doc,
              title, main_text, text, out, lastRun>>

\* lines 100-101: OPENAI_API_KEY is not set
summarize_via_openai_no_key ==
    /\ spc = "summarize"
    /\ spc' = "failed"
    /\ err' = "RuntimeError"
    /\ UNCHANGED <<RunFrame, sent, resp, summ>>

\* lines 112-117: connecting, sending or reading the response raises
summarize_via_openai_network ==
    /\ spc = "summarize"
    /\ sent' = UserContent(url, text)
    /\ spc' = "failed"
    /\ err' = "OSError"
    /\ UNCHANGED <<RunFrame, resp, summ>>

\* what lines 117-123 do with the response r: raise or return a value; the
\* status of the response is not read
OnResponse(r) ==
    IF JsonLoadsRaises(r)
    THEN /\ spc' = "failed"
         /\ err' = "JSONDecodeError"
         /\ UNCHANGED summ
    ELSE /\ summ' = ExtractText(r)
         /\ spc' = "persist"
         /\ UNCHANGED err

\* lines 102-123: the POST is answered
summarize_via_openai ==
    /\ spc = "summarize"
    /\ sent' = UserContent(url, text)
    /\ \E r \in Responses :
          /\ resp' = r
          /\ OnResponse(r)
    /\ UNCHANGED RunFrame

\* ------------------------------------------------------------ summarize_url
\* round(fetched["elapsed"], 2); elapsed times are whole seconds in the model
round2(e) == e

\* lines 130-136 with the title taken as it is
Record_NoPlaceholder(u, t, f, sm) ==
    [url |-> u, title |-> t, method |-> f.method, elapsed_sec |-> f.elapsed,
     summary |-> [sm EXCEPT !.pad = FALSE]]

\* lines 130-136
Record(u, t, f, sm) ==
    [url |-> u,
     title |-> IF t # "" THEN t ELSE "(no title)",
     method |-> f.method,
     elapsed_sec |-> round2(f.elapsed),
     summary |-> strip(sm)]

\* json.dumps(out, ensure_ascii=False, indent=2).encode()
EncodeJson(o) == [kind |-> "bytes", json |-> o]

\* lines 130-138 with the record written before summ.strip() is evaluated
summarize_url_persist_WriteFirst ==
    /\ spc = "persist"
    /\ store' = [store EXCEPT ![SumName(url)] =
                    [kind |-> "bytes",
                     json |-> [url |-> url, title |-> title,
                               method |-> fetched.method, summary |-> summ]]]
    /\ writes' = Append(writes, SumName(url))
    /\ IF summ.kind # "str"
       THEN spc' = "failed" /\ err' = "AttributeError" /\ UNCHANGED out
       ELSE /\ out' = [url |-> url, title |-> title, method |-> fetched.method,
                       summary |-> summ]
            /\ spc' = "returned"
            /\ UNCHANGED err
    /\ UNCHANGED <<sessions, pc, url, force_js, wait_css, cached, phase, s, heavy,
                   driver, trace, result, last, calls, store0, fetched, doc, title,
                   main_text, text, sent, resp, summ, lastRun>>

\* lines 130-138: summ.strip() raises on a value that is no string; otherwise
\* the record is assembled, written under sum_<key>.json and returned
summarize_url_persist ==
    /\ spc = "persist"
    /\ IF summ.kind # "str"
       THEN /\ spc' = "failed"
            /\ err' = "AttributeError"
            /\ UNCHANGED <<store, writes, out>>
       ELSE /\ out' = Record(url, title, fetched, summ)
            /\ store' = _cache_write(store, SumName(url),
                                     EncodeJson(Record(url, title, fetched, summ)))
            /\ writes' = Append(writes, SumName(url))
            /\ spc' = "returned"
            /\ UNCHANGED err
    /\ UNCHANGED <<sessions, pc, url, force_js, wait_css, cached, phase, s, heavy,
                   driver, trace, result, last, calls, store0, fetched, doc, title,
                   main_text, text, sent, resp, summ, lastRun>>

\* lines 147-154: main prints and the process ends, or dies of the exception
Exit ==
    /\ spc \in {"returned", "failed"}
    /\ lastRun' = [kind |-> IF spc = "returned" THEN "ok" ELSE "failed",
                   url |-> url,
                   raw |-> \E i \in 1..Len(writes) : writes[i] = RawName(url)]
    /\ spc' = "idle"
    /\ url' = "u1" /\ force_js' = FALSE /\ wait_css' = ""
    /\ fetched' = None /\ doc' = "none" /\ title' = "" /\ main_text' = 0 /\ text' = None
    /\ sent' = None /\ resp' = None /\ summ' = None /\ out' = None /\ err' = ""
    /\ writes' = <<>>
    /\ store0' = store
    /\ UNCHANGED <<store, sessions, pc, cached, phase, s, heavy, driver, trace,
                   result, last, calls>>

Step ==
    \/ fetch_static_returns
    \/ fetch_static_raises
    \/ webdriver_Chrome
    \/ webdriver_Chrome_raises
    \/ driver_get
    \/ WebDriverWait_until
    \/ page_source
    \/ driver_raises
    \/ finally_return
    \/ finally_reraise

\* the process as started without OPENAI_API_KEY in its environment: every run
\* fetches, extracts and ends at the check of line 101
Next ==
    \/ \E u \in Urls, f \in BOOLEAN, w \in WaitCss : smart_fetch(u, f, w)
    \/ Step
    \/ Return
    \/ extract_main_content
    \/ extract_main_content_except
    \/ summarize_via_openai_no_key
    \/ Exit

Spec == Init /\ [][Next]_vars

\* every blocking operation is bounded by a timeout (lines 44, 57, 60), so a
\* call that has started keeps taking steps
LiveSpec == Spec /\ WF_vars(Step)

\* the URL the runs of RunSpec name
RunUrls == {"u1"}

\* the process with or without the credential and with the remote service
\* answering in every way
RunNext ==
    \/ \E u \in RunUrls, f \in BOOLEAN, w \in WaitCss : smart_fetch(u, f, w)
    \/ Step
    \/ Return
    \/ extract_main_content
    \/ extract_main_content_except
    \/ summarize_via_openai_no_key
    \/ summarize_via_openai_network
    \/ summarize_via_openai
    \/ summarize_url_persist
    \/ Exit

RunSpec == Init /\ [][RunNext]_vars

\* ================================================================ claims
Active == pc # "idle"
Finished == pc = "done"
HasReturned == pc = "done" /\ result.kind = "returned"
AllOk(t) == \A i \in 1..Len(t) : t[i].res = "ok"
Invoked(t, fn) == \E i \in 1..Len(t) : t[i].fn = fn
FallbackCount(t) == Cardinality({i \in 1..Len(t) : t[i].phase = "fallback"})
Persisted(r) == store[RawName(url)] = Encode(r.html)

\* C1: a smart_fetch call that immediately follows a call for the same URL
\* that returned answers from the cache: it invokes no strategy and returns
\* method "cache" with the HTML and text the first call persisted.
C1_Idempotence ==
    (Active /\ last.kind = "returned" /\ last.url = url)
        => /\ trace = <<>>
           /\ Finished
           /\ result = Returned(FetchResult(url, "cache", last.html, 0))

\* C2: the fallback attempt of a call uses the other strategy than the one
\* whose exception started it; it never re-invokes the strategy that raised.
C2_SingleSwap ==
    \A i \in 2..Len(trace) :
        (trace[i].phase = "fallback" /\ trace[i-1].phase = "primary")
            => trace[i].fn # trace[i-1].fn

\* C3: when smart_fetch returns an outcome whose method is not "cache", the
\* store holds under raw_<key(url)>.html the bytes of the returned HTML.
C3_WriteThrough ==
    (HasReturned /\ result.value.method # "cache") => Persisted(result.value)

C3_Witness ==
    /\ HasReturned
    /\ result.value.method # "cache"
    /\ phase = "fallback"
    /\ Persisted(result.value)

\* C4: whenever a raw-HTML blob exists under the URL's key, whatever its
\* content and whatever force_js and wait_css are, the call returns at once
\* with method "cache", elapsed 0 and the stored blob's HTML, invokes no
\* strategy and leaves the store unchanged.
C4_CacheAuthoritative ==
    [][(pc = "idle" /\ pc' # "idle" /\ _cache_read(store, RawName(url')) # None)
          => /\ pc' = "done"
             /\ result' = Returned(FetchResult(url', "cache",
                                   Decode(_cache_read(store, RawName(url'))), 0))
             /\ trace' = <<>>
             /\ store' = store]_vars

\* C5: with no cached blob and force_js false, when the lightweight fetch
\* raises the browser fetch is the one fallback, and when that succeeds the
\* call returns the browser outcome for the URL, persisted, and does not raise.
C5_FallbackToBrowser ==
    (Finished /\ cached = None /\ ~force_js /\ trace # <<>>
        /\ trace[1].res = "raised")
        => /\ Len(trace) = 2
           /\ trace[2].fn = "selenium"
           /\ trace[2].res = "ok"
                 => /\ result.kind = "returned"
                    /\ result.value.method = "selenium"
                    /\ result.value.url = url
                    /\ Persisted(result.value)

C5_Witness ==
    /\ Finished /\ cached = None /\ ~force_js
    /\ Len(trace) = 2
    /\ trace[1] = [fn |-> "requests", phase |-> "primary", res |-> "raised"]
    /\ trace[2] = [fn |-> "selenium", phase |-> "fallback", res |-> "ok"]
    /\ result.kind = "returned"

\* C6: with no cached blob and force_js true, when the browser fetch raises
\* and the lightweight fallback raises too, the call raises; it returns no
\* outcome.
C6_DoubleFailureRaises ==
    (Finished /\ cached = None /\ force_js /\ Len(trace) = 2
        /\ trace[1].fn = "selenium" /\ trace[1].res = "raised"
        /\ trace[2].fn = "requests" /\ trace[2].res = "raised")
        => result = Raised

C6_Witness ==
    /\ Finished /\ cached = None /\ force_js
    /\ trace = << [fn |-> "selenium", phase |-> "primary", res |-> "raised"],
                  [fn |-> "requests", phase |-> "fallback", res |-> "raised"] >>
    /\ result = Raised

\* C7: with no cached blob and every strategy succeeding: for force_js false
\* the call returns the lightweight outcome without invoking the browser
\* exactly when looks_js_heavy rejects the lightweight HTML, and otherwise
\* invokes the browser and returns and persists the browser outcome; for
\* force_js true the lightweight fetch is not invoked and the browser outcome
\* is returned.
C7_StrategySelection ==
    (HasReturned /\ cached = None /\ AllOk(trace))
        => IF force_js
           THEN /\ ~Invoked(trace, "requests")
                /\ result.value.method = "selenium"
                /\ Persisted(result.value)
           ELSE /\ s # None
                /\ (result.value.method = "requests" /\ ~Invoked(trace, "selenium"))
                      <=> ~looks_js_heavy(s.html)
                /\ looks_js_heavy(s.html)
                      => /\ Invoked(trace, "selenium")
                         /\ result.value.method = "selenium"
                         /\ Persisted(result.value)
                /\ ~looks_js_heavy(s.html)
                      => /\ result.value = s
                         /\ Persisted(s)

C7_Witness ==
    /\ HasReturned /\ cached = None /\ AllOk(trace) /\ ~force_js
    /\ s # None /\ looks_js_heavy(s.html)
    /\ trace = << [fn |-> "requests", phase |-> "primary", res |-> "ok"],
                  [fn |-> "selenium", phase |-> "primary", res |-> "ok"] >>
    /\ result.value.method = "selenium"

\* C8: looks_js_heavy is true exactly when the number of script tag openings,
\* bare or with attributes, exceeds 20 or the stripped text is shorter than
\* 400 characters.
ScriptTagOpenings(h) == h.bare + h.attr

C8_ClassifierDefinition ==
    s # None
        => (heavy <=> (ScriptTagOpenings(s.html) > ScriptLimit
                          \/ strip_noise(s.html) < MinTextLen))

\* C9: at most one browser session is open at any time, and none is open
\* between two strategy invocations or once the call has returned or raised,
\* whichever way fetch_selenium was left.
C9_BrowserTeardown ==
    /\ sessions <= 1
    /\ pc \in {"idle", "static", "selenium", "done"} => sessions = 0
    /\ pc \in {"get", "wait", "source", "quit"} => sessions = 1

C9_Witness ==
    /\ Finished
    /\ sessions = 0
    /\ Len(trace) = 3
    /\ trace[2] = [fn |-> "selenium", phase |-> "primary", res |-> "raised"]
    /\ trace[3] = [fn |-> "selenium", phase |-> "fallback", res |-> "raised"]
    /\ wait_css # ""

\* C10: a call makes at most one fallback attempt, at most three strategy
\* invocations in all, a failed fallback ends the call with the exception,
\* and every call that has started returns or raises.
C10_BoundedRecovery ==
    /\ [](/\ Len(trace) <= 3
          /\ FallbackCount(trace) <= 1
          /\ (trace # <<>> /\ trace[Len(trace)].phase = "fallback"
                 /\ trace[Len(trace)].res = "raised")
                => (Finished /\ result = Raised))
    /\ (Active ~> Finished)

C10_Witness ==
    /\ Finished
    /\ result = Raised
    /\ Len(trace) = 3
    /\ FallbackCount(trace) = 1

\* C11: once the remote service has answered, whatever the body of the
\* answer is, summarize_via_openai returns a string and does not raise, and
\* summarize_url does not fail on account of the answer.
C11_DegradesOnShape ==
    resp # None
        => /\ spc # "failed"
           /\ summ # None
           /\ summ.kind = "str"

\* C12: when the remote service answers with a non-success HTTP status,
\* summarize_via_openai raises, the run fails and no summary record is
\* written by it.
C12_HttpFailureFatal ==
    (resp # None /\ resp.status # 200)
        => /\ spc = "failed"
           /\ SumName(url) \notin {writes[i] : i \in 1..Len(writes)}
           /\ store[SumName(url)] = store0[SumName(url)]

\* C13: a run that wrote the raw blob and failed before the summary leaves
\* the blob and no new summary, and the next run for the same URL gets the
\* HTML from the cache, invoking no strategy, and goes on to summarize and
\* persist the summary record.
C13_RecoverablePartialState ==
    /\ (spc = "failed" /\ writes = <<RawName(url)>>)
          => /\ store[RawName(url)] # None
             /\ store[SumName(url)] = store0[SumName(url)]
    /\ (lastRun.kind = "failed" /\ lastRun.raw /\ spc # "idle" /\ url = lastRun.url)
          => /\ store0[RawName(url)] # None
             /\ trace = <<>>
             /\ writes \in {<<>>, <<SumName(url)>>}
             /\ pc # "idle"
                   => /\ pc = "done"
                      /\ result = Returned(FetchResult(url, "cache",
                                           Decode(store0[RawName(url)]), 0))
             /\ (pc = "idle" /\ spc # "failed")
                   => (fetched # None /\ fetched.method = "cache")
             /\ spc = "failed" => err # "fetch"
             /\ spc = "returned" => store[SumName(url)] = EncodeJson(out)

Written == {writes[i] : i \in 1..Len(writes)}
TimesWritten(n) == Cardinality({i \in 1..Len(writes) : writes[i] = n})

\* C14: a run that ends in a fatal error leaves the summary entry as it was
\* before the run; the raw blob of its URL is the only entry it may have
\* written.
C14_NoSummaryOnFailure ==
    spc = "failed"
        => /\ store[SumName(url)] = store0[SumName(url)]
           /\ Written \subseteq {RawName(url)}
           /\ \A n \in Names \ {RawName(url)} : store[n] = store0[n]

C14_Witness ==
    /\ spc = "failed"
    /\ err = "AttributeError"
    /\ writes = <<RawName(url)>>
    /\ store[SumName(url)] = None

\* C15: the steps of a run come in the order fetch, extract, truncate,
\* summarize, persist, return; the summary record is written once, after the
\* summarization has returned and after any raw write of the run, and the
\* record returned is the record written: url, title or "(no title)",
\* method and elapsed time of the fetch outcome, stripped summary.
C15_PipelineOrder ==
    /\ writes \in {<<>>, <<RawName(url)>>, <<SumName(url)>>,
                   <<RawName(url), SumName(url)>>}
    /\ spc = "fetch" => (fetched = None /\ doc = "none")
    /\ spc = "extract" => (pc = "idle" /\ fetched # None /\ doc = "none" /\ text = None)
    /\ spc = "summarize" => (doc # "none" /\ text = short(main_text, MaxChars)
                                /\ sent = None /\ summ = None)
    /\ spc = "persist" => (sent = UserContent(url, text) /\ resp # None
                              /\ summ # None /\ out = None)
    /\ spc # "returned" => (SumName(url) \notin Written /\ out = None)
    /\ spc = "returned"
          => /\ summ # None /\ resp # None
             /\ TimesWritten(SumName(url)) = 1
             /\ out.url = url
             /\ out.title = (IF title = "" THEN "(no title)" ELSE title)
             /\ out.method = fetched.method
             /\ out.elapsed_sec = fetched.elapsed
             /\ out.summary = strip(summ)
             /\ store[SumName(url)] = EncodeJson(out)

C15_Witness ==
    /\ spc = "returned"
    /\ writes = <<RawName(url), SumName(url)>>
    /\ title = ""
    /\ out.title = "(no title)"
    /\ summ.pad /\ ~out.summary.pad

\* C16 as stated: a successful run for a URL that already has both entries
\* writes both again, each once, with the data of this run.
C16_OverwritesBoth ==
    (spc = "returned" /\ store0[RawName(url)] # None /\ store0[SumName(url)] # None)
        => /\ writes = <<RawName(url), SumName(url)>>
           /\ store[RawName(url)] = Encode(fetched.html)
           /\ store[SumName(url)] = EncodeJson(out)

\* C16 amended: in one run each entry is written at most once; a successful
\* run writes the summary record whole with its own data, and writes the raw
\* blob whole exactly when it fetched, leaving it untouched when it answered
\* from the cache; no entry is removed and no other entry is touched.
C16_WritesPerRun ==
    /\ \A n \in Names : TimesWritten(n) <= 1
    /\ \A n \in Names : store0[n] # None => store[n] # None
    /\ \A n \in Names \ Written : store[n] = store0[n]
    /\ spc = "returned"
          => /\ SumName(url) \in Written
             /\ store[SumName(url)] = EncodeJson(out)
             /\ fetched.method = "cache"
                   => (RawName(url) \notin Written
                          /\ store[RawName(url)] = store0[RawName(url)])
             /\ fetched.method # "cache"
                   => (RawName(url) \in Written
                          /\ store[RawName(url)] = Encode(fetched.html))

C16_Witness ==
    /\ spc = "returned"
    /\ store0[RawName(url)] # None
    /\ store0[SumName(url)] # None
    /\ fetched.method = "cache"
    /\ writes = <<SumName(url)>>
    /\ store[SumName(url)] # store0[SumName(url)]

\* C17: the text inside the request is the extracted text unchanged when it
\* has at most 18000 characters, and otherwise its first 18000 characters
\* followed by one marker character, 18001 in all.
C17_Truncation ==
    sent # None
        => /\ sent.url = url
           /\ IF main_text <= MaxChars
              THEN sent.text = [chars |-> main_text, marker |-> 0]
              ELSE /\ sent.text = [chars |-> MaxChars, marker |-> 1]
                   /\ TextLen(sent.text) = MaxChars + 1

C17_Witness ==
    /\ sent # None
    /\ main_text = MaxChars + 1
    /\ TextLen(sent.text) = MaxChars + 1

\* C18: extract_main_content hands summarize_url a title and a text whatever
\* readability does; when readability raises, the title is empty and the
\* text is strip_noise of the whole HTML, and the summary record carries the
\* title "(no title)".
C18_ExtractorNeverRaises ==
    /\ doc # "none"
          => /\ spc \in {"summarize", "persist", "returned", "failed"}
             /\ text # None
             /\ err \in {"", "RuntimeError", "OSError", "JSONDecodeError",
                         "AttributeError"}
    /\ doc = "raised"
          => /\ title = ""
             /\ main_text = strip_noise(fetched.html)
             /\ spc = "returned" => out.title = "(no title)"

C18_Witness ==
    /\ doc = "raised"
    /\ spc = "returned"
    /\ out.title = "(no title)"
    /\ main_text = strip_noise(fetched.html)
    /\ main_text > 0

\* C19: with no cached blob and force_js true, when the browser fetch raises
\* and the lightweight fallback succeeds, that outcome is written and
\* returned as it is, script-heavy or not, and no browser is started again.
C19_FallbackTakenAsIs ==
    (force_js /\ cached = None /\ Len(trace) >= 2
        /\ trace[1].fn = "selenium" /\ trace[1].res = "raised"
        /\ trace[2].fn = "requests" /\ trace[2].res = "ok")
        => /\ Finished
           /\ Len(trace) = 2
           /\ sessions = 0
           /\ result.kind = "returned"
           /\ result.value.method = "requests"
           /\ Persisted(result.value)

C19_Witness ==
    /\ Finished /\ force_js /\ cached = None
    /\ trace = << [fn |-> "selenium", phase |-> "primary", res |-> "raised"],
                  [fn |-> "requests", phase |-> "fallback", res |-> "ok"] >>
    /\ result.kind = "returned"
    /\ result.value.method = "requests"
    /\ looks_js_heavy(result.value.html)

\* C20: when smart_fetch raises, the store is as it was before the call: no
\* name was written, and the raw entry of the URL is what the call read.
C20_NoWriteOnFailure ==
    (Finished /\ result = Raised)
        => /\ store = store0
           /\ writes = <<>>
           /\ store[RawName(url)] = cached

C20_Witness ==
    /\ Finished /\ result = Raised
    /\ s # None
    /\ cached = None
    /\ store[RawName(url)] = None

====
